---- MODULE Spec2Model ----
(***************************************************************************)
(* A model of src/channels/discord.ts: the DiscordChannel adapter          *)
(* (connection lifecycle, inbound message handler, sendMessage with        *)
(* chunking, ownsJid).                                                     *)
(*                                                                         *)
(* Strings whose characters the code inspects (chat identifiers, channel   *)
(* ids, message texts) are sequences of characters; strings the code only  *)
(* tests for truthiness or passes through are TLA+ strings.                *)
(***************************************************************************)
EXTENDS Integers, Sequences, FiniteSets, TLC

VARIABLES
    client,      \* this.client: 0 is null, k > 0 is the k-th Client constructed
    connected,   \* this.connected
    nClients,    \* number of Client objects constructed by connect() so far
    session,     \* per Client: its login/ready phase and whether destroy() hit it
    promise,     \* per connect() call: the state of the promise it returned
    destroys,    \* per Client: number of destroy() calls the adapter made on it
    groups,      \* the router's registered groups (keys of registeredGroups())
    last,        \* the operation or event handled last, with its inputs
    calls,       \* callbacks (onChatMetadata / onMessage) made by the handler run last
    ev,          \* the message event handled last
    snd,         \* the sendMessage call in flight or completed last
    assistantName, \* ASSISTANT_NAME of ../config.js
    own,         \* ownsJid: the input drawn and the value returned for it
    typ,         \* the setTyping call in flight or completed last
    reply,       \* the interaction.reply content the /channelid listener sent last
    polled,      \* the value isConnected() returned last
    prod,        \* per write_ipc_task invocation: its position and local variables
    files,       \* the task directory: file name -> file, for the files that exist
    observed     \* what the consumer's last poll of the task directory read

\* The deferred task queue
taskVars == <<prod, files, observed>>

vars == <<client, connected, nClients, session, promise, destroys, groups,
          last, calls, ev, snd, assistantName, own, typ, reply, polled, taskVars>>

(***************************************************************************)
(* Bounds                                                                  *)
(***************************************************************************)
\* connect() calls (Client objects) in one behaviour
MaxSessions == 2
\* connect() calls in one behaviour that also sends
SendSessions == 1
\* the longest prefixed text sent spans MaxChunks full messages plus one character
MaxChunks == 2
\* the longest identifier handed to ownsJid
MaxJidLen == 4
\* the values `date +%s%N` may return to the invocations of write_ipc_task
MaxStamp == 2

Sessions == 1..MaxSessions

(***************************************************************************)
(* Values                                                                  *)
(***************************************************************************)
\* null / undefined
Null == "<null>"

\* JavaScript truthiness of a string-or-null value
Truthy(v) == v # Null /\ v # ""

\* a || b
OrElse(a, b) == IF Truthy(a) THEN a ELSE b

(***************************************************************************)
(* Connection lifecycle: connect(), the SDK's login outcome, the           *)
(* ClientReady event, the Error event, disconnect(), isConnected().        *)
(***************************************************************************)
\* A Client that connect() has not constructed yet
NoSession == [phase |-> "none", destroyed |-> FALSE]

\* A promise connect() has not created yet; atSettle is this.connected as it
\* was when the promise was settled
NoPromise == [state |-> "none", atSettle |-> FALSE]

\* The operation record: op names the operation, k the Client it concerns,
\* hadClient whether this.client was non-null when the operation started
Op(name, k, had) == [op |-> name, k |-> k, hadClient |-> had]

\* resolve() / reject() settle a pending promise and are no-ops afterwards
Settle(p, how, flag) ==
    IF p.state = "pending" THEN [state |-> how, atSettle |-> flag] ELSE p

\* Faulty variant: login(botToken).then(resolve, reject), which resolves on
\* login success
LoginSettlesEager(p, ok, flag) ==
    IF ok THEN Settle(p, "resolved", flag) ELSE Settle(p, "rejected", flag)

\* login(botToken).catch(reject): a failed login rejects the promise, a
\* successful one leaves it to the ClientReady listener
LoginSettles(p, ok, flag) ==
    IF ok THEN p ELSE Settle(p, "rejected", flag)

\* this.connected as the on(ClientReady) listener leaves it; the once()
\* listener registered after it then resolves the promise
ReadyFlag(c) == TRUE

\* isConnected()
isConnected == connected

\* connect(): a new Client replaces this.client (the previous one, if any, is
\* neither destroyed nor detached from its listeners); login starts
Connect(limit) ==
    /\ nClients < limit
    /\ LET k == nClients + 1 IN
        /\ nClients' = k
        /\ client' = k
        /\ session' = [session EXCEPT ![k] = [phase |-> "login", destroyed |-> FALSE]]
        /\ promise' = [promise EXCEPT ![k] = [state |-> "pending", atSettle |-> FALSE]]
        /\ last' = Op("connect", k, client # 0)
    /\ calls' = <<>>
    /\ UNCHANGED <<connected, destroys, groups, ev, snd, assistantName, own,
                   typ, reply, polled, taskVars>>

\* The SDK reports that login(botToken) succeeded: nothing listens
LoginOk(k) ==
    /\ session[k].phase = "login"
    /\ ~session[k].destroyed
    /\ session' = [session EXCEPT ![k].phase = "loggedIn"]
    /\ promise' = [promise EXCEPT ![k] = LoginSettles(@, TRUE, connected)]
    /\ last' = Op("loginOk", k, client # 0)
    /\ calls' = <<>>
    /\ UNCHANGED <<client, connected, nClients, destroys, groups, ev, snd, assistantName, own,
                   typ, reply, polled, taskVars>>

\* login(botToken) rejects (bad token, network failure, Client destroyed
\* while logging in)
LoginFail(k) ==
    /\ session[k].phase = "login"
    /\ session' = [session EXCEPT ![k].phase = "failed"]
    /\ promise' = [promise EXCEPT ![k] = LoginSettles(@, FALSE, connected)]
    /\ last' = Op("loginFail", k, client # 0)
    /\ calls' = <<>>
    /\ UNCHANGED <<client, connected, nClients, destroys, groups, ev, snd, assistantName, own,
                   typ, reply, polled, taskVars>>

\* Client k emits ClientReady (once per Client, after a successful login and
\* not after destroy())
Ready(k) ==
    /\ session[k].phase = "loggedIn"
    /\ ~session[k].destroyed
    /\ session' = [session EXCEPT ![k].phase = "ready"]
    /\ connected' = ReadyFlag(connected)
    /\ promise' = [promise EXCEPT ![k] = Settle(@, "resolved", connected')]
    /\ last' = Op("ready", k, client # 0)
    /\ calls' = <<>>
    /\ UNCHANGED <<client, nClients, destroys, groups, ev, snd, assistantName, own,
                   typ, reply, polled, taskVars>>

\* A router asks isConnected()
IsConnectedCall ==
    /\ polled' = isConnected
    /\ last' = Op("isConnected", 0, client # 0)
    /\ calls' = <<>>
    /\ UNCHANGED <<client, connected, nClients, session, promise, destroys,
                   groups, ev, snd, assistantName, own, typ, reply, taskVars>>

\* Faulty variant: the Error listener takes the adapter offline
ErrorEventClears(k) ==
    /\ session[k].phase \in {"login", "loggedIn", "ready"}
    /\ ~session[k].destroyed
    /\ connected' = FALSE
    /\ last' = Op("error", k, client # 0)
    /\ calls' = <<>>
    /\ UNCHANGED <<client, nClients, session, promise, destroys,
                   groups, ev, snd, assistantName, own,
                   typ, reply, polled, taskVars>>

\* Client k emits Error: the listener logs
ErrorEvent(k) ==
    /\ session[k].phase \in {"login", "loggedIn", "ready"}
    /\ ~session[k].destroyed
    /\ last' = Op("error", k, client # 0)
    /\ calls' = <<>>
    /\ UNCHANGED <<client, connected, nClients, session, promise, destroys,
                   groups, ev, snd, assistantName, own,
                   typ, reply, polled, taskVars>>

\* Faulty variant: disconnect() keeps the handle of the destroyed Client
ClientAfterDisconnectKept(c) == c

\* this.client after disconnect() found a Client
ClientAfterDisconnect(c) == 0

\* disconnect()
Disconnect ==
    /\ IF client # 0
       THEN /\ connected' = FALSE
            /\ destroys' = [destroys EXCEPT ![client] = @ + 1]
            /\ session' = [session EXCEPT ![client].destroyed = TRUE]
            /\ client' = ClientAfterDisconnect(client)
       ELSE UNCHANGED <<client, connected, destroys, session>>
    /\ last' = Op("disconnect", client, client # 0)
    /\ calls' = <<>>
    /\ UNCHANGED <<nClients, promise, groups, ev, snd, assistantName, own,
                   typ, reply, polled, taskVars>>

(***************************************************************************)
(* Chat identifiers                                                        *)
(***************************************************************************)
\* 'dc:'
JidPrefix == <<"d", "c", ":">>

\* Faulty variant: the last character of p is not compared
StartsWithLoose(s, p) ==
    /\ Len(s) >= Len(p) - 1
    /\ \A i \in 1..(Len(p) - 1) : s[i] = p[i]

\* s.startsWith(p)
StartsWith(s, p) ==
    /\ Len(s) >= Len(p)
    /\ \A i \in 1..Len(p) : s[i] = p[i]

\* ownsJid(jid)
ownsJid(jid) == StartsWith(jid, JidPrefix)

\* Faulty variant: `dc${channelId}`
ChatJidNoColon(channelId) == <<"d", "c">> \o channelId

\* `dc:${channelId}`
ChatJid(channelId) == JidPrefix \o channelId

\* jid.replace(/^dc:/, '')
StripPrefix(jid) ==
    IF StartsWith(jid, JidPrefix) THEN SubSeq(jid, Len(JidPrefix) + 1, Len(jid)) ELSE jid

\* A router asks ownsJid(jid)
OwnsJidCall(jid) ==
    /\ own' = [jid |-> jid, called |-> TRUE, result |-> ownsJid(jid)]
    /\ last' = Op("ownsJid", 0, client # 0)
    /\ calls' = <<>>
    /\ UNCHANGED <<client, connected, nClients, session, promise, destroys,
                   groups, ev, snd, assistantName, typ, reply, polled, taskVars>>

(***************************************************************************)
(* Inbound: the MessageCreate listener                                     *)
(***************************************************************************)
\* Channel ids the platform uses; the empty id stands for a missing channelId
ChannelIds == {<<"1">>, <<"2">>}

\* The chat identifiers the router may register
Jids == {ChatJid(c) : c \in ChannelIds}

\* The fields of a message event the listener reads
Events ==
    [bot : BOOLEAN,                        \* message.author.bot
     guildId : {Null, "g1"},               \* message.guildId
     channelId : ChannelIds \cup {<<>>},   \* message.channelId
     content : {"", "hi"},                 \* message.content
     displayName : {Null, "", "Nick"},     \* message.member?.displayName
     globalName : {Null, "", "Al"},        \* message.author.globalName
     username : {"alice123"},              \* message.author.username
     isText : BOOLEAN]                     \* message.channel instanceof TextChannel

\* The events the lifecycle specification delivers: one per path of the listener
CoreEvents ==
    {e \in Events : /\ e.displayName = "Nick" /\ e.globalName = "Al" /\ e.isText
                    /\ e.channelId = <<"1">>
                    /\ (e.bot => e.guildId = "g1" /\ e.content = "hi")
                    /\ (e.guildId = Null => e.content = "hi")}

NoEvent ==
    [bot |-> FALSE, guildId |-> Null, channelId |-> <<>>, content |-> "",
     displayName |-> Null, globalName |-> Null, username |-> "", isText |-> FALSE]

\* Faulty variant: the author.bot test is missing
DiscardedAllowBots(e) ==
    \/ ~Truthy(e.guildId) \/ e.channelId = <<>>
    \/ ~Truthy(e.content)

\* The early returns of the listener: bot author, no guild or channel, no content
Discarded(e) ==
    \/ e.bot
    \/ ~Truthy(e.guildId) \/ e.channelId = <<>>
    \/ ~Truthy(e.content)

\* Faulty variant: message.member?.displayName || message.author.username
SenderNameSkipsGlobal(e) == OrElse(e.displayName, e.username)

\* message.member?.displayName || message.author.globalName || message.author.username
SenderName(e) == OrElse(OrElse(e.displayName, e.globalName), e.username)

\* `#${message.channel.name}` for a TextChannel, else the chat identifier
ChannelName(e) == IF e.isText THEN <<"#">> \o e.channelId ELSE ChatJid(e.channelId)

\* this.opts.onChatMetadata(chatJid, timestamp, channelName, 'discord', false)
MetadataCall(e) ==
    [fn |-> "onChatMetadata", jid |-> ChatJid(e.channelId), name |-> ChannelName(e),
     sender_name |-> "", content |-> ""]

\* this.opts.onMessage(chatJid, {...})
MessageCall(e) ==
    [fn |-> "onMessage", jid |-> ChatJid(e.channelId), name |-> <<>>,
     sender_name |-> SenderName(e), content |-> e.content]

\* Faulty variant: the registration gate is missing
RelayedAlways(e, registered) == TRUE

\* Only deliver the full message for registered groups
Relayed(e, registered) == ChatJid(e.channelId) \in registered

\* The callbacks one run of the listener makes, in order
HandlerCalls(e, registered) ==
    IF Discarded(e) THEN <<>>
    ELSE IF Relayed(e, registered) THEN <<MetadataCall(e), MessageCall(e)>>
    ELSE <<MetadataCall(e)>>

\* Faulty variant: the listener uses the groups as they were at construction
registeredGroupsAtConstruction == {}

\* this.opts.registeredGroups(), called by each run of the listener
registeredGroups == groups

\* Client k emits MessageCreate with event e (the listener has no await before
\* its last callback: it runs to completion)
MessageCreate(k, e) ==
    /\ session[k].phase = "ready"
    /\ ~session[k].destroyed
    /\ ev' = e
    /\ calls' = HandlerCalls(e, registeredGroups)
    /\ last' = Op("message", k, client # 0)
    /\ UNCHANGED <<client, connected, nClients, session, promise, destroys,
                   groups, snd, assistantName, own,
                   typ, reply, polled, taskVars>>

\* The fields of an interaction the /channelid listener reads
Interactions ==
    [chatInput : BOOLEAN,                  \* interaction.isChatInputCommand()
     commandName : {"channelid", "other"}, \* interaction.commandName
     channelId : ChannelIds]               \* interaction.channelId

\* The ephemeral replies the /channelid listener sends for interaction i
ChannelIdReplies(i) ==
    IF ~i.chatInput \/ i.commandName # "channelid"
    THEN <<>>
    ELSE <<[jid |-> ChatJid(i.channelId), ephemeral |-> TRUE]>>

\* Client k emits InteractionCreate with interaction i
InteractionCreate(k, i) ==
    /\ session[k].phase = "ready"
    /\ ~session[k].destroyed
    /\ reply' = ChannelIdReplies(i)
    /\ last' = Op("channelid", k, client # 0)
    /\ calls' = <<>>
    /\ UNCHANGED <<client, connected, nClients, session, promise, destroys,
                   groups, ev, snd, assistantName, own,
                   typ, polled, taskVars>>

\* The router registers or removes a group
Register(j) ==
    /\ j \notin groups
    /\ groups' = groups \cup {j}
    /\ last' = Op("register", 0, client # 0)
    /\ calls' = <<>>
    /\ UNCHANGED <<client, connected, nClients, session, promise, destroys,
                   ev, snd, assistantName, own,
                   typ, reply, polled, taskVars>>

Unregister(j) ==
    /\ j \in groups
    /\ groups' = groups \ {j}
    /\ last' = Op("unregister", 0, client # 0)
    /\ calls' = <<>>
    /\ UNCHANGED <<client, connected, nClients, session, promise, destroys,
                   ev, snd, assistantName, own,
                   typ, reply, polled, taskVars>>

(***************************************************************************)
(* Outbound: sendMessage                                                   *)
(***************************************************************************)
MAX_MESSAGE_LENGTH == 2000

\* The assistant names the configuration may hold
AssistantNames == {<<"A", "n", "d", "y">>, <<"C", "l", "a", "w", "s">>}

\* `**${ASSISTANT_NAME}:** ${text}`
Prefixed(name, text) == <<"*", "*">> \o name \o <<":", "*", "*", " ">> \o text

\* s.slice(0, MAX_MESSAGE_LENGTH)
FirstSlice(s) == SubSeq(s, 1, IF Len(s) < MAX_MESSAGE_LENGTH THEN Len(s) ELSE MAX_MESSAGE_LENGTH)

\* Faulty variant: s.slice(MAX_MESSAGE_LENGTH + 1)
RestSkipping(s) == SubSeq(s, MAX_MESSAGE_LENGTH + 2, Len(s))

\* s.slice(MAX_MESSAGE_LENGTH)
Rest(s) == SubSeq(s, MAX_MESSAGE_LENGTH + 1, Len(s))

\* while (remaining.length > 0) { chunks.push(...); remaining = ... }
RECURSIVE Split(_)
Split(remaining) ==
    IF Len(remaining) > 0 THEN <<FirstSlice(remaining)>> \o Split(Rest(remaining)) ELSE <<>>

\* The payloads of the channel.send calls, in order: the whole prefixed text if
\* it fits one message, else its chunks
Payloads(prefixed) ==
    IF Len(prefixed) <= MAX_MESSAGE_LENGTH THEN <<prefixed>> ELSE Split(prefixed)

\* Faulty variant: if (!this.client)
NotConnectedClientOnly(c, flag) == c = 0

\* if (!this.client || !this.connected)
NotConnected(c, flag) == c = 0 \/ ~flag

\* Faulty variant: the try block ends before the sends
OnRejectSendEscapes(at) == IF at = "send" THEN "threw" ELSE "returned"

\* What reaches the caller when an awaited call inside sendMessage rejects: the
\* try block spans the fetch and every send, its catch logs and returns
OnReject(at) == "returned"

\* A sendMessage call: pc is where it stands, cl the Client it fetched from,
\* fetches the channels.fetch calls it made, idx the payload whose send is
\* awaited, sent the payloads of the channel.send calls it issued, acked the
\* number of those calls that resolved, path the log line it ended on
NewSend(jid, text) ==
    [pc |-> "called", jid |-> jid, text |-> text,
     clientAtCall |-> client, connectedAtCall |-> connected,
     cl |-> 0, channelId |-> <<>>, fetches |-> 0,
     idx |-> 0, sent |-> <<>>, acked |-> 0,
     outcome |-> "none", path |-> "none"]

Finish(call, outcome, path) ==
    [call EXCEPT !.pc = "done", !.outcome = outcome, !.path = path]

\* sendMessage(jid, text) up to its first await
SendMessageCall(jid, text) ==
    /\ snd.pc = "idle"
    /\ snd' = IF NotConnected(client, connected)
              THEN Finish(NewSend(jid, text), "returned", "notConnected")
              ELSE [NewSend(jid, text) EXCEPT
                        !.pc = "fetch", !.cl = client,
                        !.channelId = StripPrefix(jid), !.fetches = 1]
    /\ last' = Op("sendMessage", client, client # 0)
    /\ calls' = <<>>
    /\ UNCHANGED <<client, connected, nClients, session, promise, destroys,
                   groups, ev, assistantName, own,
                   typ, reply, polled, taskVars>>

\* channels.fetch settles: a TextChannel, another channel, null, or a rejection
FetchReturn(r) ==
    /\ snd.pc = "fetch"
    /\ snd' = CASE r = "error" -> Finish(snd, OnReject("fetch"), "caught")
                [] r \in {"null", "nontext"} -> Finish(snd, "returned", "noChannel")
                [] OTHER ->
                    [snd EXCEPT !.pc = "send", !.idx = 1,
                                !.sent = <<Payloads(Prefixed(assistantName, snd.text))[1]>>]
    /\ last' = Op("fetchReturn", snd.cl, FALSE)
    /\ calls' = <<>>
    /\ UNCHANGED <<client, connected, nClients, session, promise, destroys,
                   groups, ev, assistantName, own,
                   typ, reply, polled, taskVars>>

\* Faulty variant: the catch sits inside the loop, so a failed send is logged
\* and the next chunk is sent all the same
AfterSendKeepsGoing(call, ok, payloads) ==
    IF call.idx < Len(payloads)
    THEN [call EXCEPT !.idx = @ + 1,
                      !.sent = Append(@, payloads[call.idx + 1]),
                      !.acked = IF ok THEN @ + 1 ELSE @]
    ELSE IF ok THEN Finish([call EXCEPT !.acked = @ + 1], "returned", "sent")
    ELSE Finish(call, OnReject("send"), "caught")

\* for (const chunk of chunks) { await channel.send(chunk); }: a rejection
\* leaves the loop for the catch, a resolution sends the next chunk or ends
AfterSend(call, ok, payloads) ==
    IF ~ok THEN Finish(call, OnReject("send"), "caught")
    ELSE IF call.idx < Len(payloads)
    THEN [call EXCEPT !.idx = @ + 1,
                      !.sent = Append(@, payloads[call.idx + 1]),
                      !.acked = @ + 1]
    ELSE Finish([call EXCEPT !.acked = @ + 1], "returned", "sent")

\* The channel.send awaited settles: the next payload is sent, or the call ends
SendReturn(ok) ==
    /\ snd.pc = "send"
    /\ snd' = AfterSend(snd, ok, Payloads(Prefixed(assistantName, snd.text)))
    /\ last' = Op("sendReturn", snd.cl, FALSE)
    /\ calls' = <<>>
    /\ UNCHANGED <<client, connected, nClients, session, promise, destroys,
                   groups, ev, assistantName, own,
                   typ, reply, polled, taskVars>>

(***************************************************************************)
(* Outbound: setTyping                                                     *)
(***************************************************************************)
\* Faulty variant: if (!this.client || !this.connected)
TypingSkippedIgnoresFlag(c, flag, isTyping) == c = 0 \/ ~flag

\* if (!this.client || !this.connected || !isTyping) return
TypingSkipped(c, flag, isTyping) == c = 0 \/ ~flag \/ ~isTyping

\* What reaches the caller when an awaited call inside setTyping rejects: the
\* try block spans the fetch and sendTyping, its catch logs at debug level
OnTypingReject(at) == "returned"

\* A setTyping call: fetches counts its channels.fetch calls, typings its
\* channel.sendTyping calls, fetched is what channels.fetch resolved to
NewTyping(jid, isTyping) ==
    [pc |-> "called", jid |-> jid, isTyping |-> isTyping,
     clientAtCall |-> client, connectedAtCall |-> connected,
     channelId |-> <<>>, fetches |-> 0, fetched |-> "none", typings |-> 0,
     outcome |-> "none"]

IdleTyping ==
    [pc |-> "idle", jid |-> <<>>, isTyping |-> FALSE,
     clientAtCall |-> 0, connectedAtCall |-> FALSE,
     channelId |-> <<>>, fetches |-> 0, fetched |-> "none", typings |-> 0,
     outcome |-> "none"]

\* setTyping(jid, isTyping) up to its first await
SetTypingCall(jid, isTyping) ==
    /\ typ.pc = "idle"
    /\ typ' = IF TypingSkipped(client, connected, isTyping)
              THEN [NewTyping(jid, isTyping) EXCEPT !.pc = "done", !.outcome = "returned"]
              ELSE [NewTyping(jid, isTyping) EXCEPT
                        !.pc = "fetch", !.channelId = StripPrefix(jid), !.fetches = 1]
    /\ last' = Op("setTyping", client, client # 0)
    /\ calls' = <<>>
    /\ UNCHANGED <<client, connected, nClients, session, promise, destroys,
                   groups, ev, snd, assistantName, own, reply, polled, taskVars>>

\* channels.fetch settles: only a TextChannel gets the typing signal
TypingFetchReturn(r) ==
    /\ typ.pc = "fetch"
    /\ typ' = CASE r = "error" ->
                    [typ EXCEPT !.pc = "done", !.fetched = r,
                                !.outcome = OnTypingReject("fetch")]
                [] r \in {"null", "nontext"} ->
                    [typ EXCEPT !.pc = "done", !.fetched = r, !.outcome = "returned"]
                [] OTHER ->
                    [typ EXCEPT !.pc = "typing", !.fetched = r, !.typings = @ + 1]
    /\ last' = Op("typingFetchReturn", 0, FALSE)
    /\ calls' = <<>>
    /\ UNCHANGED <<client, connected, nClients, session, promise, destroys,
                   groups, ev, snd, assistantName, own, reply, polled, taskVars>>

\* channel.sendTyping settles
SendTypingReturn(ok) ==
    /\ typ.pc = "typing"
    /\ typ' = [typ EXCEPT !.pc = "done",
                          !.outcome = IF ok THEN "returned" ELSE OnTypingReject("sendTyping")]
    /\ last' = Op("sendTypingReturn", 0, FALSE)
    /\ calls' = <<>>
    /\ UNCHANGED <<client, connected, nClients, session, promise, destroys,
                   groups, ev, snd, assistantName, own, reply, polled, taskVars>>

(***************************************************************************)
(* The deferred task queue: write_ipc_task of the sync script, and a       *)
(* consumer that polls the task directory                                  *)
(***************************************************************************)
\* Two invocations of write_ipc_task run concurrently, each with its prompt
Producers == {1, 2}

PromptOf(p) == IF p = 1 THEN "up to date" ELSE "sync complete"

\* The values of `date +%s%N`
Stamps == 1..MaxStamp

\* DISCORD_JID
DISCORD_JID ==
    ChatJid(<<"1", "4", "7", "4", "8", "5", "3", "3", "4", "9",
              "6", "7", "6", "2", "8", "6", "1", "4", "5">>)

\* Faulty variant: the name carries `date +%s`, which two invocations started
\* within the same second share
TaskFileBySecond(stamp) == <<"sync_", 0, ".json">>

\* "$IPC_TASKS_DIR/sync_$(date +%s%N).json"
TaskFile(stamp) == <<"sync_", stamp, ".json">>

\* The object JSON.stringify serialises
Descriptor(prompt) ==
    [type |-> "schedule_task", prompt |-> prompt, schedule_type |-> "once",
     schedule_value |-> "now + 15000 ms", targetJid |-> DISCORD_JID]

\* A file's bytes: nothing yet, or one whole JSON document
NoBytes == <<>>

Json(obj) == <<obj>>

NotInvoked(p) == [pc |-> "idle", stamp |-> 0, prompt |-> PromptOf(p)]

\* write_ipc_task "$prompt": next_run is computed
Invoke(p) ==
    /\ prod[p].pc = "idle"
    /\ prod' = [prod EXCEPT ![p].pc = "name"]
    /\ last' = Op("invoke", p, FALSE)
    /\ UNCHANGED <<files, observed>>
    /\ UNCHANGED <<client, connected, nClients, session, promise, destroys, groups,
                   calls, ev, snd, assistantName, own, typ, reply, polled>>

\* task_file is named after the clock; mkdir -p makes sure the directory exists
NameFile(p, stamp) ==
    /\ prod[p].pc = "name"
    /\ prod' = [prod EXCEPT ![p].pc = "open", ![p].stamp = stamp]
    /\ last' = Op("nameFile", p, FALSE)
    /\ UNCHANGED <<files, observed>>
    /\ UNCHANGED <<client, connected, nClients, session, promise, destroys, groups,
                   calls, ev, snd, assistantName, own, typ, reply, polled>>

\* fs.writeFileSync opens task_file itself with O_CREAT | O_TRUNC: the file
\* exists under its final name, empty, with the mode the umask leaves
OpenFile(p) ==
    /\ prod[p].pc = "open"
    /\ LET f == TaskFile(prod[p].stamp) IN
       files' = IF f \in DOMAIN files
                THEN [files EXCEPT ![f].bytes = NoBytes]
                ELSE (f :> [bytes |-> NoBytes, mode |-> "umask"]) @@ files
    /\ prod' = [prod EXCEPT ![p].pc = "write"]
    /\ last' = Op("openFile", p, FALSE)
    /\ UNCHANGED observed
    /\ UNCHANGED <<client, connected, nClients, session, promise, destroys, groups,
                   calls, ev, snd, assistantName, own, typ, reply, polled>>

\* fs.writeFileSync writes the serialised descriptor to the open file
WriteFile(p) ==
    /\ prod[p].pc = "write"
    /\ files' = [files EXCEPT ![TaskFile(prod[p].stamp)].bytes =
                                    Json(Descriptor(prod[p].prompt))]
    /\ prod' = [prod EXCEPT ![p].pc = "chmod"]
    /\ last' = Op("writeFile", p, FALSE)
    /\ UNCHANGED observed
    /\ UNCHANGED <<client, connected, nClients, session, promise, destroys, groups,
                   calls, ev, snd, assistantName, own, typ, reply, polled>>

\* chmod 666 "$task_file"
Chmod(p) ==
    /\ prod[p].pc = "chmod"
    /\ files' = [files EXCEPT ![TaskFile(prod[p].stamp)].mode = "666"]
    /\ prod' = [prod EXCEPT ![p].pc = "done"]
    /\ last' = Op("chmod", p, FALSE)
    /\ UNCHANGED observed
    /\ UNCHANGED <<client, connected, nClients, session, promise, destroys, groups,
                   calls, ev, snd, assistantName, own, typ, reply, polled>>

\* The consumer polls the directory and reads every file in it (the consumer
\* is not part of the script: it only reads here)
Poll ==
    /\ observed' = {[name |-> f, bytes |-> files[f].bytes] : f \in DOMAIN files}
    /\ last' = Op("poll", 0, FALSE)
    /\ UNCHANGED <<prod, files>>
    /\ UNCHANGED <<client, connected, nClients, session, promise, destroys, groups,
                   calls, ev, snd, assistantName, own, typ, reply, polled>>

(***************************************************************************)
(* Specifications                                                          *)
(***************************************************************************)
IdleSend ==
    [pc |-> "idle", jid |-> <<>>, text |-> <<>>,
     clientAtCall |-> 0, connectedAtCall |-> FALSE,
     cl |-> 0, channelId |-> <<>>, fetches |-> 0,
     idx |-> 0, sent |-> <<>>, acked |-> 0,
     outcome |-> "none", path |-> "none"]

\* A text of n characters
Alphabet == <<"a", "b", "c", "d", "e", "f", "g">>

Text(n) == [i \in 1..n |-> Alphabet[(i % Len(Alphabet)) + 1]]

\* Text lengths around every chunk boundary, for a prefix of p characters
TextLens(p) ==
    {0, 1} \cup {k * MAX_MESSAGE_LENGTH - p + d : k \in 1..MaxChunks, d \in {-1, 0, 1}}

\* The identifiers handed to sendMessage
SendJids == {ChatJid(<<"1">>), <<"2">>}

NoOwn == [jid |-> <<>>, called |-> FALSE, result |-> FALSE]

Init ==
    /\ client = 0
    /\ connected = FALSE
    /\ nClients = 0
    /\ session = [k \in Sessions |-> NoSession]
    /\ promise = [k \in Sessions |-> NoPromise]
    /\ destroys = [k \in Sessions |-> 0]
    /\ groups = {}
    /\ last = Op("init", 0, FALSE)
    /\ calls = <<>>
    /\ ev = NoEvent
    /\ snd = IdleSend
    /\ assistantName \in AssistantNames
    /\ own = NoOwn
    /\ typ = IdleTyping
    /\ reply = <<>>
    /\ polled = FALSE
    /\ prod = [p \in Producers |-> NotInvoked(p)]
    /\ files = <<>>
    /\ observed = {}

\* The lifecycle, with inbound events on every path of the listener
Next ==
    \/ Connect(MaxSessions)
    \/ \E k \in Sessions : LoginOk(k)
    \/ \E k \in Sessions : LoginFail(k)
    \/ \E k \in Sessions : Ready(k)
    \/ \E k \in Sessions : ErrorEvent(k)
    \/ Disconnect
    \/ \E k \in Sessions, e \in CoreEvents : MessageCreate(k, e)
    \/ \E j \in Jids : Register(j)
    \/ \E j \in Jids : Unregister(j)

Spec == Init /\ [][Next]_vars

\* The inbound listener on every event the platform can deliver, one session
NextInbound ==
    \/ Connect(1)
    \/ \E k \in Sessions : LoginOk(k)
    \/ \E k \in Sessions : Ready(k)
    \/ \E k \in Sessions, e \in Events : MessageCreate(k, e)
    \/ \E j \in Jids : Register(j)
    \/ \E j \in Jids : Unregister(j)

SpecInbound == Init /\ [][NextInbound]_vars

\* sendMessage calls, one in flight at a time, interleaved with the lifecycle
NextSend ==
    \/ Connect(SendSessions)
    \/ \E k \in Sessions : LoginOk(k)
    \/ \E k \in Sessions : Ready(k)
    \/ Disconnect
    \/ \E j \in SendJids, n \in TextLens(Len(Prefixed(assistantName, <<>>))) :
            SendMessageCall(j, Text(n))
    \/ \E r \in {"text", "nontext", "null", "error"} : FetchReturn(r)
    \/ \E ok \in BOOLEAN : SendReturn(ok)

SpecSend == Init /\ [][NextSend]_vars

\* setTyping calls, one in flight at a time, interleaved with the lifecycle
NextTyping ==
    \/ Connect(SendSessions)
    \/ \E k \in Sessions : LoginOk(k)
    \/ \E k \in Sessions : Ready(k)
    \/ Disconnect
    \/ \E j \in SendJids, t \in BOOLEAN : SetTypingCall(j, t)
    \/ \E r \in {"text", "nontext", "null", "error"} : TypingFetchReturn(r)
    \/ \E ok \in BOOLEAN : SendTypingReturn(ok)

SpecTyping == Init /\ [][NextTyping]_vars

\* Two write_ipc_task invocations and the consumer's polls, in any order
NextTask ==
    \/ \E p \in Producers : Invoke(p)
    \/ \E p \in Producers, t \in Stamps : NameFile(p, t)
    \/ \E p \in Producers : OpenFile(p)
    \/ \E p \in Producers : WriteFile(p)
    \/ \E p \in Producers : Chmod(p)
    \/ Poll

SpecTask == Init /\ [][NextTask]_vars

\* The events of the round trip: one per path of the listener, on each channel
RoundTripEvents ==
    {e \in Events : /\ e.displayName = "Nick" /\ e.globalName = "Al" /\ e.isText
                    /\ e.channelId \in ChannelIds
                    /\ (e.bot => e.guildId = "g1" /\ e.content = "hi")
                    /\ (e.guildId = Null => e.content = "hi")}

\* The router answers the chat of a callback it just received: it hands the
\* chat identifier of that callback back to sendMessage or setTyping
NextRoundTrip ==
    \/ Connect(1)
    \/ \E k \in Sessions : LoginOk(k)
    \/ \E k \in Sessions : Ready(k)
    \/ \E k \in Sessions, e \in RoundTripEvents : MessageCreate(k, e)
    \/ \E j \in Jids : Register(j)
    \/ \E i \in 1..Len(calls) : SendMessageCall(calls[i].jid, Text(1))
    \/ \E i \in 1..Len(calls) : SetTypingCall(calls[i].jid, TRUE)
    \/ \E r \in {"text", "nontext", "null", "error"} : FetchReturn(r)
    \/ \E ok \in BOOLEAN : SendReturn(ok)
    \/ \E r \in {"text", "nontext", "null", "error"} : TypingFetchReturn(r)
    \/ \E ok \in BOOLEAN : SendTypingReturn(ok)

SpecRoundTrip == Init /\ [][NextRoundTrip]_vars

\* Every operation of the adapter and every event of one session, interleaved
NextFrame ==
    \/ Connect(1)
    \/ \E k \in Sessions : LoginOk(k)
    \/ \E k \in Sessions : LoginFail(k)
    \/ \E k \in Sessions : Ready(k)
    \/ \E k \in Sessions : ErrorEvent(k)
    \/ Disconnect
    \/ \E k \in Sessions, e \in CoreEvents : MessageCreate(k, e)
    \/ \E k \in Sessions, i \in Interactions : InteractionCreate(k, i)
    \/ SendMessageCall(ChatJid(<<"1">>), Text(1))
    \/ \E r \in {"text", "error"} : FetchReturn(r)
    \/ \E ok \in BOOLEAN : SendReturn(ok)
    \/ SetTypingCall(ChatJid(<<"1">>), TRUE)
    \/ \E r \in {"text", "error"} : TypingFetchReturn(r)
    \/ \E ok \in BOOLEAN : SendTypingReturn(ok)
    \/ IsConnectedCall
    \/ \E j \in {ChatJid(<<"1">>), <<"1">>} : OwnsJidCall(j)

SpecFrame == Init /\ [][NextFrame]_vars

\* ownsJid on every string of up to MaxJidLen characters
JidChars == {"d", "c", ":", "1"}

JidInputs == UNION {[1..n -> JidChars] : n \in 0..MaxJidLen}

NextOwns == \E j \in JidInputs : OwnsJidCall(j)

SpecOwns == Init /\ [][NextOwns]_vars

(***************************************************************************)
(* Properties                                                              *)
(***************************************************************************)
\* Number of callbacks named fn that the listener run last made
CallCount(fn) == Cardinality({i \in 1..Len(calls) : calls[i].fn = fn})

\* The event handled last passed every discard filter
Accepted == ~ev.bot /\ ev.guildId = "g1" /\ ev.channelId # <<>> /\ ev.content = "hi"

\* C2: an accepted inbound event makes exactly one onChatMetadata call, and
\* exactly one onMessage call if its chat identifier is registered, none if
\* it is not.
C2_RelayGate ==
    (last.op = "message" /\ Accepted) =>
        /\ CallCount("onChatMetadata") = 1
        /\ CallCount("onMessage") = (IF ChatJid(ev.channelId) \in groups THEN 1 ELSE 0)
        /\ Len(calls) = CallCount("onChatMetadata") + CallCount("onMessage")

C2_Witness ==
    /\ last.op = "message" /\ Accepted
    /\ ChatJid(ev.channelId) \notin groups
    /\ groups # {}
    /\ Len(calls) = 1

\* C3: an event from a bot author, or without guild or channel, or with empty
\* content causes no onMessage and no onChatMetadata call, registered or not.
C3_DiscardedSilent ==
    (last.op = "message"
        /\ (ev.bot \/ ev.guildId = Null \/ ev.channelId = <<>> \/ ev.content = "")) =>
        /\ CallCount("onMessage") = 0
        /\ CallCount("onChatMetadata") = 0

C3_Witness ==
    /\ last.op = "message"
    /\ ev.bot /\ ev.guildId = "g1" /\ ev.content = "hi"
    /\ ChatJid(ev.channelId) \in groups

\* C6: a resolved connect() promise belongs to a Client whose ClientReady event
\* was handled, and isConnected() was true when it resolved; login success
\* alone resolves nothing.
C6_ResolvedOnlyAfterReady ==
    \A k \in Sessions :
        promise[k].state = "resolved" =>
            /\ session[k].phase = "ready"
            /\ promise[k].atSettle

C6_Witness ==
    \E k \in Sessions : promise[k].state = "resolved" /\ last.op = "ready" /\ last.k = k

\* C7: after a failed login the connect() promise is rejected and isConnected()
\* is false.
C7_LoginFailureRejects ==
    last.op = "loginFail" =>
        /\ promise[last.k].state = "rejected"
        /\ ~isConnected

\* The adapter's own state
adapter == <<client, connected, session, destroys>>

\* C8 as stated: disconnect() while isConnected() is false changes nothing and
\* tears nothing down, two consecutive calls equal one, and no session is
\* destroyed twice.
C8_NoOpWhenNotConnected ==
    [][/\ (last'.op = "disconnect" /\ ~connected) => UNCHANGED adapter
       /\ (last.op = "disconnect" /\ last'.op = "disconnect") => UNCHANGED adapter
       /\ \A k \in Sessions : destroys'[k] <= 1]_vars

\* C8 amended: disconnect() while the adapter holds no client handle changes
\* nothing and tears nothing down, two consecutive calls equal one, and no
\* session is destroyed twice.
C8_NoOpWithoutClient ==
    [][/\ (last'.op = "disconnect" /\ client = 0) => UNCHANGED adapter
       /\ (last.op = "disconnect" /\ last'.op = "disconnect") => UNCHANGED adapter
       /\ \A k \in Sessions : destroys'[k] <= 1]_vars

C8_Witness ==
    /\ last.op = "disconnect" /\ ~last.hadClient
    /\ \E k \in Sessions : destroys[k] = 1

\* C9: isConnected() is true after the ready event and false after
\* disconnect() and after an error event.
C9_FlagFollowsLiveState ==
    [][/\ last'.op = "ready" => connected'
       /\ last'.op = "disconnect" => ~connected'
       /\ last'.op = "error" => ~connected']_vars

\* ceil(a / b)
CeilDiv(a, b) == (a + b - 1) \div b

\* The concatenation of a sequence of strings
RECURSIVE Concat(_)
Concat(ss) == IF ss = <<>> THEN <<>> ELSE ss[1] \o Concat(Tail(ss))

\* The sendMessage call ended on 'Discord message sent': the channel resolved
\* to a TextChannel and every send succeeded
SentAll == snd.pc = "done" /\ snd.path = "sent"

\* C1: a text of L characters sent with a prefix of P characters goes out in
\* exactly ceil((L+P)/2000) channel.send calls of at most 2000 characters each,
\* whose payloads concatenated in order are the prefixed text; a prefixed text
\* of at most 2000 characters goes out in one call.
C1_ChunksExact ==
    SentAll =>
        LET prefixed == <<"*", "*">> \o assistantName \o <<":", "*", "*", " ">> \o snd.text
        IN  /\ Len(snd.sent) = CeilDiv(Len(prefixed), 2000)
            /\ \A i \in 1..Len(snd.sent) : Len(snd.sent[i]) <= 2000
            /\ Concat(snd.sent) = prefixed
            /\ Len(prefixed) <= 2000 => snd.sent = <<prefixed>>

C1_Witness ==
    /\ SentAll
    /\ Len(snd.sent) = MaxChunks + 1
    /\ Len(snd.sent[MaxChunks + 1]) = 1

\* C4: sendMessage called with no client or with the ready flag false makes no
\* channel fetch and no send, and returns normally.
C4_NoTransportWhenDisconnected ==
    (snd.pc # "idle" /\ (snd.clientAtCall = 0 \/ ~snd.connectedAtCall)) =>
        /\ snd.pc = "done"
        /\ snd.fetches = 0
        /\ snd.sent = <<>>
        /\ snd.outcome = "returned"

C4_Witness ==
    /\ snd.pc = "done"
    /\ snd.clientAtCall # 0 /\ ~snd.connectedAtCall
    /\ snd.fetches = 0

\* C5: whatever the channel fetch and each send do, and whenever disconnect()
\* runs while the call is in flight, no error reaches the caller of sendMessage.
C5_NeverThrows ==
    /\ snd.outcome # "threw"
    /\ snd.pc = "done" => snd.outcome = "returned"

C5_Witness ==
    /\ snd.pc = "done" /\ snd.path = "caught"
    /\ last.op = "sendReturn"
    /\ session[snd.cl].destroyed /\ client = 0
    /\ Len(snd.sent) >= 2

\* C10: ownsJid returns true for the identifiers that start with the three
\* characters 'dc:' and false for every other string.
C10_OwnsExactPrefix ==
    own.called =>
        (own.result <=>
            /\ Len(own.jid) >= 3
            /\ own.jid[1] = "d" /\ own.jid[2] = "c" /\ own.jid[3] = ":")

C10_Witness ==
    /\ own.called /\ ~own.result
    /\ Len(own.jid) >= 3
    /\ own.jid[1] = "d" /\ own.jid[2] = "c"

\* C12: setTyping makes no transport call when the adapter is not connected or
\* isTyping is false; otherwise it sends at most one typing signal, only to a
\* text channel, and it returns normally whatever the fetch and the signal do.
C12_TypingBestEffort ==
    /\ (typ.pc # "idle"
            /\ (typ.clientAtCall = 0 \/ ~typ.connectedAtCall \/ ~typ.isTyping)) =>
            (typ.pc = "done" /\ typ.fetches = 0 /\ typ.typings = 0)
    /\ typ.typings <= 1
    /\ typ.typings = 1 => typ.fetched = "text"
    /\ typ.outcome # "threw"
    /\ typ.pc = "done" => typ.outcome = "returned"

C12_Witness ==
    /\ typ.pc = "done"
    /\ typ.clientAtCall # 0 /\ typ.connectedAtCall /\ ~typ.isTyping
    /\ typ.fetches = 0

\* The onMessage call of the listener run last was made
Delivered == last.op = "message" /\ Len(calls) = 2 /\ calls[2].fn = "onMessage"

\* C13: the sender name of an inbound message is the first non-empty value of
\* member display name, global display name, account username, in that order.
C13_SenderNameOrder ==
    Delivered =>
        calls[2].sender_name =
            (IF ev.displayName \notin {Null, ""} THEN ev.displayName
             ELSE IF ev.globalName \notin {Null, ""} THEN ev.globalName
             ELSE ev.username)

\* nickname "", globalName 'Al', username 'alice123' yields 'Al'
C13_Witness ==
    /\ Delivered
    /\ ev.displayName = "" /\ ev.globalName = "Al" /\ ev.username = "alice123"
    /\ calls[2].sender_name = "Al"

\* The i-th slice of 2000 characters of s
Slice(s, i) ==
    SubSeq(s, (i - 1) * 2000 + 1, IF i * 2000 < Len(s) THEN i * 2000 ELSE Len(s))

\* C14: the chunks of one sendMessage call go out in slice order, chunk N+1
\* only after the send of chunk N resolved; after a failed send no further
\* chunk is sent, and no chunk is sent twice.
C14_SequentialNoRetry ==
    LET prefixed == <<"*", "*">> \o assistantName \o <<":", "*", "*", " ">> \o snd.text
    IN  /\ Len(snd.sent) <= snd.acked + 1
        /\ \A i \in 1..Len(snd.sent) : snd.sent[i] = Slice(prefixed, i)
        /\ (snd.pc = "done" /\ snd.path = "caught" /\ snd.sent # <<>>) =>
                Len(snd.sent) = snd.acked + 1
        /\ (snd.pc = "done" /\ snd.path = "sent") => Len(snd.sent) = snd.acked

\* The first send of a three-chunk text failed: nothing else was sent
C14_Witness ==
    /\ snd.pc = "done" /\ snd.path = "caught"
    /\ Len(snd.text) + Len(assistantName) + 7 > 2 * 2000
    /\ Len(snd.sent) = 1 /\ snd.acked = 0

\* C11: two concurrent write_ipc_task invocations whose timestamps differ
\* write two distinct files; in every interleaving a file once written keeps
\* its own descriptor, and both descriptors are there when both have ended.
C11_DistinctStampsDistinctFiles ==
    /\ \A p \in Producers :
        (/\ prod[p].pc \in {"chmod", "done"}
         /\ \A q \in Producers \ {p} : prod[q].stamp # prod[p].stamp) =>
            /\ <<"sync_", prod[p].stamp, ".json">> \in DOMAIN files
            /\ files[<<"sync_", prod[p].stamp, ".json">>].bytes
                    = <<Descriptor(PromptOf(p))>>
    /\ (/\ \A p \in Producers : prod[p].pc = "done"
        /\ prod[1].stamp # prod[2].stamp) =>
            Cardinality(DOMAIN files) = 2

C11_Witness ==
    /\ \A p \in Producers : prod[p].pc = "done"
    /\ prod[1].stamp # prod[2].stamp
    /\ Cardinality(DOMAIN files) = 2

\* C15: every task file a poll of the consumer reads under its final name
\* holds the complete descriptor, whatever the producers' steps around it.
C15_NoPartialFileObserved ==
    \A o \in observed : o.bytes # NoBytes

\* C16: whatever registrations and removals came before, an accepted event
\* produces an onMessage call exactly if its chat identifier is registered at
\* the moment the event is handled.
C16_GateReadsCurrentGroups ==
    [][(last'.op = "message"
            /\ ~ev'.bot /\ ev'.guildId = "g1" /\ ev'.channelId # <<>> /\ ev'.content = "hi") =>
        ((\E i \in 1..Len(calls') : calls'[i].fn = "onMessage")
            <=> (<<"d", "c", ":">> \o ev'.channelId) \in groups)]_vars

\* An event of a chat registered after construction was relayed, while another
\* chat is not registered
C16_Witness ==
    /\ Delivered
    /\ groups = {ChatJid(ev.channelId)}

\* C17: once disconnect() has completed the client handle is null, and until a
\* later connect() no inbound event makes an onMessage or onChatMetadata call.
C17_NoInboundAfterDisconnect ==
    [][/\ last'.op = "disconnect" => client' = 0
       /\ (client = 0 /\ nClients >= 1 /\ last'.op = "message") => calls' = <<>>]_vars

\* C19: whenever the connection flag is true the adapter holds a client handle,
\* and that handle is the Client whose ClientReady event set the flag.
C19_FlagImpliesLiveHandle ==
    connected =>
        /\ client # 0
        /\ session[client].phase = "ready"
        /\ ~session[client].destroyed

\* C20: every chat identifier handed to onChatMetadata or onMessage is 'dc:'
\* followed by the event's channel id and satisfies ownsJid; handed back to
\* sendMessage or setTyping it resolves to the channel id of that event.
C20_JidRoundTrip ==
    /\ last.op = "message" =>
        \A i \in 1..Len(calls) :
            /\ calls[i].jid = <<"d", "c", ":">> \o ev.channelId
            /\ ownsJid(calls[i].jid)
    /\ (last.op = "sendMessage" /\ snd.pc = "fetch") =>
        /\ ownsJid(snd.jid)
        /\ snd.channelId = ev.channelId
    /\ (last.op = "setTyping" /\ typ.pc = "fetch") =>
        /\ ownsJid(typ.jid)
        /\ typ.channelId = ev.channelId

C20_Witness ==
    /\ last.op = "sendMessage" /\ snd.pc = "fetch"
    /\ snd.jid = <<"d", "c", ":", "2">>
    /\ snd.channelId = <<"2">>
    /\ ev.channelId = <<"2">>

\* The steps C18 lists as leaving the connection state alone
FrameOps ==
    {"sendMessage", "fetchReturn", "sendReturn",
     "setTyping", "typingFetchReturn", "sendTypingReturn",
     "message", "channelid", "error", "isConnected", "ownsJid"}

\* C18: the flag changes only in a ClientReady step or a disconnect() step;
\* sendMessage, setTyping, the inbound listener, the /channelid listener, the
\* Error listener, isConnected and ownsJid leave the flag and the handle as
\* they were; an Error event starts no new session and ends none.
C18_Frame ==
    [][/\ connected' # connected => last'.op \in {"ready", "disconnect"}
       /\ last'.op \in FrameOps => UNCHANGED <<connected, client>>
       /\ last'.op = "error" => UNCHANGED <<nClients, session, destroys>>]_vars

C18_Witness ==
    /\ last.op = "error"
    /\ connected
    /\ client # 0
    /\ snd.pc = "done"
    /\ typ.pc # "idle"
    /\ reply # <<>>
    /\ polled

====
